---- MODULE Spec2Model ----
(***************************************************************************)
(* Spaced-repetition scheduler and deck store of wps_nihongo               *)
(* (utils/srsUtils.ts and its variants).                                   *)
(*                                                                         *)
(* Ease factors are kept in hundredths (2.5 is 250, the floor 1.3 is 130): *)
(* every ease delta of the SM-2 formula is a whole number of hundredths,   *)
(* so the fixed-point value is the decimal value of `ef`; the rounding     *)
(* error of the floating-point additions is not modelled.                  *)
(* Times are milliseconds, as returned by Date.now().                      *)
(***************************************************************************)
EXTENDS Integers, Sequences, FiniteSets, TLC

VARIABLES
    variant,    \* which copy of srsUtils the build uses
    item,       \* scheduler: the card handed to calculateReview / getNextInterval
    quality,    \* scheduler: the rating of the last calculateReview call
    now,        \* Date.now()
    result,     \* scheduler: the card returned by the last calculateReview call
    preview,    \* scheduler: getNextInterval(item, q) for every q, as rendered
    ratings,    \* scheduler: the ratings a card created in the session has had
    cards,      \* due filter: the collection handed to getDueCards
    due,        \* due filter: the sequence returned by getDueCards
    stats,      \* due filter: the counts returned by getDeckStats
    idb,        \* deck store: records of the IndexedDB object store, keyed by id
    ls,         \* deck store: the localStorage slot LS_KEY
    calls,      \* deck store: the loadFlashcards / saveFlashcards calls in flight
    txq,        \* deck store: live IndexedDB transactions, in creation order
    csvRows,    \* import: the rows of fields the pasted text was written from
    csvText,    \* import: the text handed to parseCSVImports, as characters
    imports,    \* import: the cards parseCSVImports returned
    review,     \* review session: the review state of FlashcardReview
    saved,      \* review session: the collection last handed to saveFlashcards
    flashcards, \* app: the deck in memory (useState of AppContent)
    app         \* app: what has happened since the mount

schedVars == <<item, quality, result, preview, ratings>>
dueVars   == <<cards, due, stats>>
storeVars == <<idb, ls, calls, txq>>
importVars == <<csvRows, csvText, imports>>
sessVars  == <<review, saved>>
appVars   == <<flashcards, app>>
restVars  == <<importVars, sessVars, appVars>>
nonStoreVars == <<variant, now, schedVars, dueVars, restVars>>
vars      == <<variant, now, schedVars, dueVars, storeVars, restVars>>

----------------------------------------------------------------------------
(* Bounds *)

MaxInterval   == 6      \* largest interval (days) of an input card
MaxRepetition == 3      \* largest repetition count of an input card
MinEf         == 124    \* smallest ease factor (hundredths) of an input card
MaxEf         == 256    \* largest ease factor (hundredths) of an input card
MaxNow        == 1      \* the clock runs over 0 .. MaxNow days
MaxDeck       == 3      \* largest collection handed to getDueCards
MaxId         == 2      \* card ids of the deck store are 1 .. MaxId
MaxSave       == 2      \* largest collection handed to saveFlashcards
MaxCalls      == 2      \* loadFlashcards / saveFlashcards calls in flight at once
MaxRows       == 2      \* most rows of a text handed to parseCSVImports
MaxAdds       == 1      \* cards added through handleAddFlashcard
MaxRatings    == 4      \* longest run of ratings followed for a new card

----------------------------------------------------------------------------
(* Scheduler *)

Refined == "part_002"       \* getNextInterval, ef updated on pass only, due list sorted
Older   == "srsUtils.ts"    \* ef updated on every rating, due list unsorted
Variants == {Refined, Older}

Qualities == 0 .. 5

DayMs == 24 * 60 * 60 * 1000

NoCard == [id |-> 0]

\* Math.round(n / 100) for n >= 0: halves round up
RoundHundredths(n) == (n + 50) \div 100

\* an ease delta without the quadratic term
EfDelta_Linear(q) == 10 - (5 - q) * 8

\* 0.1 - (5 - quality) * (0.08 + (5 - quality) * 0.02), in hundredths
EfDelta(q) == 10 - (5 - q) * (8 + (5 - q) * 2)

\* a preview that keeps the card's interval on a failing rating
getNextInterval_KeepOnFail(card, q) ==
    IF q >= 3
    THEN IF card.repetition = 0 THEN 1
         ELSE IF card.repetition = 1 THEN 6
         ELSE RoundHundredths(card.interval * card.ef)
    ELSE card.interval

getNextInterval(card, q) ==
    IF q >= 3
    THEN IF card.repetition = 0 THEN 1
         ELSE IF card.repetition = 1 THEN 6
         ELSE RoundHundredths(card.interval * card.ef)
    ELSE 1

\* a floor that is not applied
ClampEf_NoFloor(e) == e

ClampEf(e) == IF e < 130 THEN 130 ELSE e

\* a failed card that is due again at once
ReviewInterval_ZeroOnFail(card, q) ==
    IF q >= 3
    THEN IF card.repetition = 0 THEN 1
         ELSE IF card.repetition = 1 THEN 6
         ELSE RoundHundredths(card.interval * card.ef)
    ELSE 0

\* the ease factor multiplied with the streak instead of with the interval
ReviewInterval_ByRepetition(card, q) ==
    IF q >= 3
    THEN IF card.repetition = 0 THEN 1
         ELSE IF card.repetition = 1 THEN 6
         ELSE RoundHundredths(card.repetition * card.ef)
    ELSE 1

\* the interval computed after the ease update instead of before it
ReviewInterval_NewEf(card, q) ==
    IF q >= 3
    THEN IF card.repetition = 0 THEN 1
         ELSE IF card.repetition = 1 THEN 6
         ELSE RoundHundredths(card.interval * ClampEf(card.ef + EfDelta(q)))
    ELSE 1

ReviewInterval(card, q) ==
    IF q >= 3
    THEN IF card.repetition = 0 THEN 1
         ELSE IF card.repetition = 1 THEN 6
         ELSE RoundHundredths(card.interval * card.ef)
    ELSE 1

\* a failing rating that keeps the streak
ReviewRepetition_NoReset(card, q) ==
    IF q >= 3 THEN card.repetition + 1 ELSE card.repetition

\* a streak that only ratings above 3 continue
ReviewRepetition_Above3(card, q) ==
    IF q > 3 THEN card.repetition + 1 ELSE 0

ReviewRepetition(card, q) ==
    IF q >= 3 THEN card.repetition + 1 ELSE 0

ReviewEf(v, card, q) ==
    IF v = Refined
    THEN IF q >= 3 THEN ClampEf(card.ef + EfDelta(q)) ELSE card.ef
    ELSE ClampEf(card.ef + EfDelta(q))

\* a due date counted from the interval the card came with
calculateReview_OldInterval(v, card, q, t) ==
    [card EXCEPT !.repetition = ReviewRepetition(card, q),
                 !.interval   = ReviewInterval(card, q),
                 !.ef         = ReviewEf(v, card, q),
                 !.nextReview = t + card.interval * DayMs]

\* a returned record built without the `...card` spread
calculateReview_NoSpread(v, card, q, t) ==
    [repetition |-> ReviewRepetition(card, q),
     interval   |-> ReviewInterval(card, q),
     ef         |-> ReviewEf(v, card, q),
     nextReview |-> t + ReviewInterval(card, q) * DayMs]

calculateReview(v, card, q, t) ==
    [card EXCEPT !.repetition = ReviewRepetition(card, q),
                 !.interval   = ReviewInterval(card, q),
                 !.ef         = ReviewEf(v, card, q),
                 !.nextReview = t + ReviewInterval(card, q) * DayMs]

\* a new card that is due a day after it was created
createFlashcard_DueTomorrow(i, k, t) ==
    [id |-> i, kanji |-> k, interval |-> 0, repetition |-> 0, ef |-> 250,
     nextReview |-> t + DayMs]

createFlashcard(i, k, t) ==
    [id |-> i, kanji |-> k, interval |-> 0, repetition |-> 0, ef |-> 250,
     nextReview |-> t]

----------------------------------------------------------------------------
(* Scheduler specification: calculateReview and getNextInterval applied to *)
(* any card of a bounded set, and to the cards they return.                *)

InputCards ==
    { [id |-> 1, kanji |-> "k", interval |-> i, repetition |-> r, ef |-> e,
       nextReview |-> 0] :
        i \in 0 .. MaxInterval, r \in 0 .. MaxRepetition, e \in MinEf .. MaxEf }

Times == { d * DayMs + m : d \in 0 .. MaxNow, m \in {0, 1} }

NoPreview == <<>>

IdleDue   == cards = <<>> /\ due = <<>> /\ stats = <<>>
Absent    == [kind |-> "absent"]      \* localStorage.getItem(LS_KEY) is null
IdleStore == idb = {} /\ ls = Absent /\ calls = <<>> /\ txq = <<>>
NotParsed == [parsed |-> FALSE, newCards |-> <<>>]
IdleImport == csvRows = <<>> /\ csvText = <<>> /\ imports = NotParsed
NoSession == [viewMode |-> "dashboard", currentCardIndex |-> 0,
              sessionComplete |-> FALSE, history |-> <<>>, started |-> <<>>]
IdleSess  == review = NoSession /\ saved = <<>>
NoApp     == [mounted |-> FALSE, loaded |-> FALSE, persisted |-> {},
              added |-> {}, raced |-> FALSE]
IdleApp   == flashcards = <<>> /\ app = NoApp
IdleRest  == IdleImport /\ IdleSess /\ IdleApp

InitSched ==
    /\ variant \in Variants
    /\ item \in InputCards
    /\ quality = 0
    /\ now = 0
    /\ result = NoCard
    /\ preview = NoPreview
    /\ ratings = <<>>
    /\ IdleDue
    /\ IdleStore
    /\ IdleRest

\* Date.now() moves on
Tick ==
    /\ \E t \in Times : t > now /\ now' = t
    /\ UNCHANGED <<variant, schedVars, dueVars, storeVars, restVars>>

\* the rating buttons render getNextInterval(currentCard, q)
PreviewInterval ==
    /\ variant = Refined
    /\ preview' = [q \in Qualities |-> getNextInterval(item, q)]
    /\ UNCHANGED <<variant, now, item, quality, result, ratings, dueVars, storeVars, restVars>>

ComputeReview ==
    /\ \E q \in Qualities :
          /\ quality' = q
          /\ result' = calculateReview(variant, item, q, now)
    /\ UNCHANGED <<variant, now, item, preview, ratings, dueVars, storeVars, restVars>>

\* the returned card is the card of the next review
NextReview ==
    /\ result # NoCard
    /\ result.interval <= MaxInterval
    /\ result.repetition <= MaxRepetition
    /\ result.ef <= MaxEf
    /\ item' = result
    /\ result' = NoCard
    /\ preview' = NoPreview
    /\ UNCHANGED <<variant, now, quality, ratings, dueVars, storeVars, restVars>>

NextSched == Tick \/ PreviewInterval \/ ComputeReview \/ NextReview

SpecSched == InitSched /\ [][NextSched]_vars

----------------------------------------------------------------------------
(* Review session of a new card: createFlashcard, then the ratings of      *)
(* handleRating, each replacing the card by the card calculateReview       *)
(* returns.                                                                *)

InitFresh ==
    /\ variant \in Variants
    /\ now = 0
    /\ item = createFlashcard(1, "k", 0)
    /\ quality = 0
    /\ result = NoCard
    /\ preview = NoPreview
    /\ ratings = <<>>
    /\ IdleDue
    /\ IdleStore
    /\ IdleRest

\* handleRating: the updated card replaces the card in the deck
RateNext ==
    /\ result # NoCard
    /\ result.interval <= MaxInterval
    /\ Len(ratings) < MaxRatings
    /\ item' = result
    /\ ratings' = Append(ratings, quality)
    /\ result' = NoCard
    /\ preview' = NoPreview
    /\ UNCHANGED <<variant, now, quality, dueVars, storeVars, restVars>>

NextFresh == Tick \/ PreviewInterval \/ ComputeReview \/ RateNext

SpecFresh == InitFresh /\ [][NextFresh]_vars

----------------------------------------------------------------------------
(* Scheduler properties *)

Reviewed == result # NoCard

\* C1 - Ease floor: a review of a card whose ease factor is at least 1.3
\* returns an ease factor of at least 1.3, and the card of the next review
\* keeps it, so no sequence of ratings 0..5 takes it below 1.3.
C1_EaseFloor ==
    /\ []((Reviewed /\ item.ef >= 130) => result.ef >= 130)
    /\ [][item.ef >= 130 => item'.ef >= 130]_vars

\* a reviewed card is reviewed again and the floor is what holds its ease up
C1_Witness ==
    /\ Reviewed
    /\ item.nextReview > 0
    /\ item.ef >= 130
    /\ quality = 3
    /\ item.ef - 14 < 130
    /\ result.ef = 130

\* C2 - Fail reset: a rating below 3 returns repetition 0 and interval 1,
\* whatever the card's repetition, interval and ease factor were.
C2_FailReset ==
    (Reviewed /\ quality < 3) => (result.repetition = 0 /\ result.interval = 1)

C2_Witness ==
    /\ Reviewed
    /\ quality < 3
    /\ item.repetition > 1
    /\ item.interval > 1
    /\ result.repetition = 0
    /\ result.interval = 1

\* C3 - Pass schedule: a rating of 3 or more returns repetition + 1 and the
\* interval 1 (repetition was 0), 6 (repetition was 1), otherwise the old
\* interval times the old ease factor, rounded to the nearest day with halves
\* rounded up.
C3_PassSchedule ==
    (Reviewed /\ quality >= 3) =>
        /\ result.repetition = item.repetition + 1
        /\ item.repetition = 0 => result.interval = 1
        /\ item.repetition = 1 => result.interval = 6
        /\ item.repetition > 1 =>
              /\ 100 * result.interval - 50 <= item.interval * item.ef
              /\ item.interval * item.ef < 100 * result.interval + 50

\* repetition 5, interval 20, ease 2.0
Scenario3 ==
    [id |-> 1, kanji |-> "k", interval |-> 20, repetition |-> 5, ef |-> 200,
     nextReview |-> 0]

\* 5 days at ease 2.5 and rating 5 are round(12.5) = 13 days; 20 days at ease
\* 2.0 and rating 5 are 40 days and repetition 6
C3_Witness ==
    /\ ReviewInterval(Scenario3, 5) = 40
    /\ ReviewRepetition(Scenario3, 5) = 6
    /\ Reviewed
    /\ quality = 5
    /\ item.repetition = 3
    /\ item.interval = 5
    /\ item.ef = 250
    /\ result.interval = 13
    /\ result.repetition = 4

\* C4 - Ease update on pass: rating 5 adds 0.1, rating 4 leaves the ease
\* factor unchanged, rating 3 subtracts 0.14, and the result is floored at 1.3.
C4_EaseOnPass ==
    (Reviewed /\ quality >= 3) =>
        LET d == CASE quality = 5 -> 10 [] quality = 4 -> 0 [] quality = 3 -> 0 - 14
            e == item.ef + d
        IN  result.ef = IF e > 130 THEN e ELSE 130

C4_Witness ==
    /\ Reviewed
    /\ quality = 3
    /\ item.ef = 250
    /\ result.ef = 236

\* C5 - Ease factor updated only on a pass: a rating below 3 returns the
\* card's ease factor unchanged.
C5_EaseKeptOnFail ==
    (Reviewed /\ quality < 3) => result.ef = item.ef

\* C6 - Preview equals commit: the interval getNextInterval shows for a
\* rating is the interval calculateReview returns for it, and computing the
\* preview leaves the card as it was.
C6_PreviewEqualsCommit ==
    /\ []((Reviewed /\ preview # NoPreview) => preview[quality] = result.interval)
    /\ [][preview' # preview => item' = item \/ preview' = NoPreview]_vars

C6_Witness ==
    /\ Reviewed
    /\ preview # NoPreview
    /\ quality = 1
    /\ item.interval > 1
    /\ item.repetition > 1
    /\ preview[1] = 1
    /\ preview[5] > 6
    /\ result.interval = 1

----------------------------------------------------------------------------
(* Due filter *)

\* Array.prototype.filter(card => card.nextReview <= now)
RECURSIVE dueFilter(_, _)
dueFilter(cs, t) ==
    IF cs = <<>> THEN <<>>
    ELSE IF Head(cs).nextReview <= t
         THEN <<Head(cs)>> \o dueFilter(Tail(cs), t)
         ELSE dueFilter(Tail(cs), t)

\* insert c behind every element that does not compare greater (stable)
RECURSIVE insertByNextReview(_, _)
insertByNextReview(c, s) ==
    IF s = <<>> THEN <<c>>
    ELSE IF Head(s).nextReview - c.nextReview > 0
         THEN <<c>> \o s
         ELSE <<Head(s)>> \o insertByNextReview(c, Tail(s))

\* Array.prototype.sort((a, b) => a.nextReview - b.nextReview)
RECURSIVE sortByNextReview(_)
sortByNextReview(s) ==
    IF s = <<>> THEN <<>>
    ELSE insertByNextReview(s[Len(s)], sortByNextReview(SubSeq(s, 1, Len(s) - 1)))

getDueCards(v, cs, t) ==
    IF v = Refined THEN sortByNextReview(dueFilter(cs, t)) ELSE dueFilter(cs, t)

\* the due list together with the `now` getDueCards read
DueAt(v, cs, t) == [now |-> t, list |-> getDueCards(v, cs, t)]

\* cards.filter(pred).length, for the two predicates of getDeckStats
RECURSIVE countNew(_)
countNew(cs) ==
    IF cs = <<>> THEN 0
    ELSE (IF Head(cs).repetition = 0 THEN 1 ELSE 0) + countNew(Tail(cs))

RECURSIVE countDue(_, _)
countDue(cs, t) ==
    IF cs = <<>> THEN 0
    ELSE (IF Head(cs).nextReview <= t THEN 1 ELSE 0) + countDue(Tail(cs), t)

RECURSIVE countReview(_, _)
countReview(cs, t) ==
    IF cs = <<>> THEN 0
    ELSE (IF Head(cs).repetition > 0 /\ Head(cs).nextReview <= t THEN 1 ELSE 0)
            + countReview(Tail(cs), t)

\* a review count that takes every due card, new ones included
getDeckStats_AllDue(cs, t) ==
    [new |-> countNew(cs), learning |-> 0, review |-> countDue(cs, t),
     total |-> Len(cs)]

getDeckStats(cs, t) ==
    [new |-> countNew(cs), learning |-> 0, review |-> countReview(cs, t),
     total |-> Len(cs)]

\* the counts together with the `now` getDeckStats read
StatsAt(cs, t) == [now |-> t, counts |-> getDeckStats(cs, t)]

----------------------------------------------------------------------------
(* Due filter specification: getDueCards over any bounded collection. *)

DeckCard(i, r, t) ==
    [id |-> i, kanji |-> "k", interval |-> r, repetition |-> r, ef |-> 250,
     nextReview |-> t]

Decks ==
    UNION { { [i \in 1 .. n |-> DeckCard(i, r[i], t[i])] :
                r \in [1 .. n -> {0, 2}], t \in [1 .. n -> Times] } :
            n \in 0 .. MaxDeck }

\* Date.now().toString() + Math.random()...: an id no card of the collection has
FreshId(cs) ==
    CHOOSE i \in 1 .. Len(cs) + 1 : \A j \in 1 .. Len(cs) : cs[j].id # i

IdleSched ==
    /\ item = NoCard /\ quality = 0 /\ result = NoCard /\ preview = NoPreview
    /\ ratings = <<>>

InitDue ==
    /\ variant \in Variants
    /\ now \in Times
    /\ cards \in Decks
    /\ due = DueAt(variant, cards, now)
    /\ stats = StatsAt(cards, now)
    /\ IdleSched
    /\ IdleStore
    /\ IdleRest

TickDue ==
    /\ \E t \in Times : t > now /\ now' = t
    /\ UNCHANGED <<variant, schedVars, dueVars, storeVars, restVars>>

\* the due list is computed again (the effect on [allCards, activeTag])
RefreshDue ==
    /\ due' = DueAt(variant, cards, now)
    /\ stats' = StatsAt(cards, now)
    /\ UNCHANGED <<variant, now, cards, schedVars, storeVars, restVars>>

\* a card is added to the collection and the effect recomputes the due list
AddCard ==
    /\ Len(cards) < MaxDeck
    /\ cards' = Append(cards, createFlashcard(FreshId(cards), "k", now))
    /\ due' = DueAt(variant, cards', now)
    /\ stats' = StatsAt(cards', now)
    /\ UNCHANGED <<variant, now, schedVars, storeVars, restVars>>

\* a card leaves the collection and the effect recomputes the due list
DeleteCard ==
    /\ \E i \in 1 .. Len(cards) :
          cards' = SubSeq(cards, 1, i - 1) \o SubSeq(cards, i + 1, Len(cards))
    /\ due' = DueAt(variant, cards', now)
    /\ stats' = StatsAt(cards', now)
    /\ UNCHANGED <<variant, now, schedVars, storeVars, restVars>>

NextDue == TickDue \/ RefreshDue \/ AddCard \/ DeleteCard

SpecDue == InitDue /\ [][NextDue]_vars

----------------------------------------------------------------------------
(* Due filter properties *)

InSeq(x, s) == \E j \in 1 .. Len(s) : s[j] = x

DueIffNotLater ==
    /\ \A i \in 1 .. Len(cards) :
          InSeq(cards[i], due.list) <=> cards[i].nextReview <= due.now
    /\ \A j \in 1 .. Len(due.list) : InSeq(due.list[j], cards)
    /\ \A j, k \in 1 .. Len(due.list) : due.list[j] = due.list[k] => j = k

DueAscending ==
    \A j, k \in 1 .. Len(due.list) :
        j < k => due.list[j].nextReview <= due.list[k].nextReview

\* C7 - Due filter: a card of the collection is in the due list exactly
\* when its nextReview is not later than now, and the due list is in
\* ascending order of nextReview.
C7_DueFilterSorted == DueIffNotLater /\ DueAscending

\* What holds of every copy of getDueCards: the due list holds exactly the
\* cards whose nextReview is not later than now, each once.
C7_DueFilter == DueIffNotLater

C7_Witness ==
    /\ Len(cards) = 3
    /\ Len(due.list) = 2
    /\ \E i \in 1 .. 3 : cards[i].nextReview = due.now
    /\ \E i \in 1 .. 3 : cards[i].nextReview > due.now

----------------------------------------------------------------------------
(* Deck store: loadFlashcards and saveFlashcards over IndexedDB, with the   *)
(* migration from localStorage.                                            *)
(*                                                                         *)
(* JavaScript runs one callback at a time, so an action is the code from   *)
(* one await or IndexedDB event to the next.  A readwrite transaction      *)
(* changes the object store in place and keeps the image to roll back to;  *)
(* transactions on the store run one at a time in creation order (txq).    *)

StoreCards ==
    { DeckCard(i, 0, 0) : i \in 1 .. MaxId } \cup { DeckCard(1, 2, DayMs) }

UniqueIds(s) == \A j, k \in 1 .. Len(s) : s[j].id = s[k].id => j = k

\* collections of cards, ids unique (createFlashcard draws a fresh id)
Collections ==
    UNION { { s \in [1 .. n -> StoreCards] : UniqueIds(s) } : n \in 0 .. MaxSave }

AsSet(s) == { s[j] : j \in 1 .. Len(s) }

\* contents the object store can have: at most one record per key
Stores == { AsSet(s) : s \in { x \in Collections : TRUE } }

\* texts the legacy slot can hold: JSON.stringify of a collection, JSON that
\* is no array, text that is no JSON
LegacySlots ==
    {Absent, [kind |-> "garbage"], [kind |-> "object"]}
        \cup { [kind |-> "array", cards |-> x] : x \in Collections }

\* JSON.parse(lsData): throws on text that is no JSON
JSONparse(slot) ==
    IF slot.kind = "garbage" THEN [ok |-> FALSE]
    ELSE IF slot.kind = "array" THEN [ok |-> TRUE, isArray |-> TRUE, value |-> slot.cards]
    ELSE [ok |-> TRUE, isArray |-> FALSE, value |-> <<>>]

\* store.put(card): the record with the card's key is replaced
put(store, card) == { r \in store : r.id # card.id } \cup {card}

\* store.getAll(): the records in key order
RECURSIVE getAll(_)
getAll(store) ==
    IF store = {} THEN <<>>
    ELSE LET r == CHOOSE x \in store : \A y \in store : x.id <= y.id
         IN  <<r>> \o getAll(store \ {r})

Calls == 1 .. MaxCalls

IdleCall ==
    [op |-> "idle", pc |-> "idle", cards |-> <<>>, puts |-> <<>>, pre |-> {},
     tx |-> "none", error |-> "none", returns |-> "nothing", result |-> <<>>]

Settled(c) == calls[c].pc \in {"resolved", "rejected"}

\* saveFlashcards(cards) up to `await openDB()`
StartSave(c, x) ==
    /\ calls[c].op = "idle"
    /\ calls' = [calls EXCEPT ![c] = [IdleCall EXCEPT !.op = "save", !.pc = "s_open",
                                                     !.cards = x]]
    /\ UNCHANGED <<idb, ls, txq, nonStoreVars>>

\* loadFlashcards() up to its first await
StartLoad(c) ==
    /\ calls[c].op = "idle"
    /\ LET p == JSONparse(ls) IN
       IF ls = Absent \/ ~p.ok
       THEN \* no legacy data, or "Migration error": on to `await openDB()`
            /\ calls' = [calls EXCEPT ![c] = [IdleCall EXCEPT !.op = "load", !.pc = "l_open"]]
            /\ UNCHANGED <<ls, nonStoreVars>>
       ELSE IF p.isArray /\ Len(p.value) > 0
       THEN \* await saveFlashcards(cards)
            /\ calls' = [calls EXCEPT ![c] = [IdleCall EXCEPT !.op = "load", !.pc = "s_open",
                                                             !.cards = p.value]]
            /\ UNCHANGED <<ls, nonStoreVars>>
       ELSE \* localStorage.removeItem(LS_KEY); return cards
            /\ calls' = [calls EXCEPT ![c] =
                            [IdleCall EXCEPT !.op = "load", !.pc = "resolved",
                                             !.returns = IF p.isArray THEN "array" ELSE "object",
                                             !.result = p.value]]
            /\ ls' = Absent
    /\ UNCHANGED <<idb, txq, nonStoreVars>>

\* openDB() resolved: the readwrite transaction is created and clear() requested
SaveOpened(c) ==
    /\ calls[c].pc = "s_open"
    /\ calls' = [calls EXCEPT ![c].pc = "s_tx", ![c].tx = "queued"]
    /\ txq' = Append(txq, c)
    /\ UNCHANGED <<idb, ls, nonStoreVars>>

\* the call after `await saveFlashcards(cards)` returned: a save is resolved,
\* a migrating load removes the legacy key and returns the legacy cards
AfterSaveResolved(call) ==
    IF call.op = "load"
    THEN [call EXCEPT !.pc = "resolved", !.tx = "none", !.pre = {},
                      !.returns = "array", !.result = call.cards]
    ELSE [call EXCEPT !.pc = "resolved", !.tx = "none", !.pre = {}]

\* the call after the save promise rejected: a save is rejected, a migrating
\* load logs "Migration error" and goes on to `await openDB()`
AfterSaveRejected(call) ==
    IF call.op = "load"
    THEN [call EXCEPT !.pc = "l_open", !.tx = "none", !.pre = {}]
    ELSE [call EXCEPT !.pc = "rejected", !.tx = "none", !.pre = {}]

\* openDB() rejected: "IDB Save Error" is logged and the save returns normally
SaveOpenFailed(c) ==
    /\ calls[c].pc = "s_open"
    /\ calls' = [calls EXCEPT ![c] = AfterSaveResolved(calls[c])]
    /\ ls' = IF calls[c].op = "load" THEN Absent ELSE ls
    /\ UNCHANGED <<idb, txq, nonStoreVars>>

\* a clear() that does not wait for the transactions created before it
TxClear_NoWait(c) ==
    /\ c \in { txq[j] : j \in 1 .. Len(txq) }
    /\ calls[c].pc = "s_tx" /\ calls[c].tx = "queued"
    /\ idb' = {}
    /\ calls' = [calls EXCEPT ![c].tx = "active", ![c].pre = idb,
                              ![c].puts = calls[c].cards]
    /\ UNCHANGED <<ls, txq, nonStoreVars>>

\* the transaction starts: clear() runs and clearReq.onsuccess requests the puts
TxClear(c) ==
    /\ txq # <<>> /\ Head(txq) = c
    /\ calls[c].pc = "s_tx" /\ calls[c].tx = "queued"
    /\ idb' = {}
    /\ calls' = [calls EXCEPT ![c].tx = "active", ![c].pre = idb,
                              ![c].puts = calls[c].cards]
    /\ UNCHANGED <<ls, txq, nonStoreVars>>

\* one put request succeeds
TxPut(c) ==
    /\ txq # <<>> /\ Head(txq) = c
    /\ calls[c].tx = "active" /\ calls[c].puts # <<>>
    /\ idb' = put(idb, Head(calls[c].puts))
    /\ calls' = [calls EXCEPT ![c].puts = Tail(calls[c].puts)]
    /\ UNCHANGED <<ls, txq, nonStoreVars>>

\* a failed put whose transaction goes on without it
TxPutFails_NoRollback(c) ==
    /\ txq # <<>> /\ Head(txq) = c
    /\ calls[c].tx = "active" /\ calls[c].puts # <<>>
    /\ txq' = Tail(txq)
    /\ calls' = [calls EXCEPT ![c] = [AfterSaveRejected(calls[c]) EXCEPT !.error = "request"]]
    /\ UNCHANGED <<idb, ls, nonStoreVars>>

\* one put request fails: the error event reaches tx.onerror, the promise is
\* rejected and the transaction aborts, which rolls the store back
TxPutFails(c) ==
    /\ txq # <<>> /\ Head(txq) = c
    /\ calls[c].tx = "active" /\ calls[c].puts # <<>>
    /\ idb' = calls[c].pre
    /\ txq' = Tail(txq)
    /\ calls' = [calls EXCEPT ![c] = [AfterSaveRejected(calls[c]) EXCEPT !.error = "request"]]
    /\ UNCHANGED <<ls, nonStoreVars>>

\* all requests are done: the transaction commits and tx.oncomplete resolves
TxCommit(c) ==
    /\ txq # <<>> /\ Head(txq) = c
    /\ calls[c].tx = "active" /\ calls[c].puts = <<>>
    /\ txq' = Tail(txq)
    /\ calls' = [calls EXCEPT ![c] = [AfterSaveResolved(calls[c]) EXCEPT !.tx = "committed"]]
    /\ ls' = IF calls[c].op = "load" THEN Absent ELSE ls
    /\ UNCHANGED <<idb, nonStoreVars>>

\* the transaction aborts without a request error (the commit fails, or put()
\* throws inside clearReq.onsuccess): the store is rolled back and only the
\* abort event fires, which saveFlashcards does not handle
TxAbort(c) ==
    /\ txq # <<>> /\ Head(txq) = c
    /\ calls[c].tx = "active"
    /\ idb' = calls[c].pre
    /\ txq' = Tail(txq)
    /\ calls' = [calls EXCEPT ![c].pc = "hung", ![c].tx = "none", ![c].pre = {},
                              ![c].error = "abort"]
    /\ UNCHANGED <<ls, nonStoreVars>>

\* openDB() resolved in loadFlashcards: readonly transaction, getAll() requested
LoadOpened(c) ==
    /\ calls[c].pc = "l_open"
    /\ calls' = [calls EXCEPT ![c].pc = "l_read", ![c].tx = "queued"]
    /\ txq' = Append(txq, c)
    /\ UNCHANGED <<idb, ls, nonStoreVars>>

\* a load without the try/catch around its openDB()
LoadOpenFailed_Rejects(c) ==
    /\ calls[c].pc = "l_open"
    /\ calls' = [calls EXCEPT ![c].pc = "rejected", ![c].error = "open"]
    /\ UNCHANGED <<idb, ls, txq, nonStoreVars>>

\* openDB() rejected in loadFlashcards: "IDB Load Error", return []
LoadOpenFailed(c) ==
    /\ calls[c].pc = "l_open"
    /\ calls' = [calls EXCEPT ![c].pc = "resolved", ![c].returns = "array",
                              ![c].result = <<>>]
    /\ UNCHANGED <<idb, ls, txq, nonStoreVars>>

\* request.onsuccess of getAll(): resolve(request.result || [])
TxGetAll(c) ==
    /\ txq # <<>> /\ Head(txq) = c
    /\ calls[c].pc = "l_read"
    /\ txq' = Tail(txq)
    /\ calls' = [calls EXCEPT ![c].pc = "resolved", ![c].tx = "none",
                              ![c].returns = "array", ![c].result = getAll(idb)]
    /\ UNCHANGED <<idb, ls, nonStoreVars>>

\* request.onerror of getAll(): reject(request.error)
TxGetAllFails(c) ==
    /\ txq # <<>> /\ Head(txq) = c
    /\ calls[c].pc = "l_read"
    /\ txq' = Tail(txq)
    /\ calls' = [calls EXCEPT ![c].pc = "rejected", ![c].tx = "none",
                              ![c].error = "request"]
    /\ UNCHANGED <<idb, ls, nonStoreVars>>

\* the caller has taken the outcome of a settled call
Release(c) ==
    /\ Settled(c)
    /\ calls' = [calls EXCEPT ![c] = IdleCall]
    /\ UNCHANGED <<idb, ls, txq, nonStoreVars>>

StoreStep(c) ==
    \/ SaveOpened(c) \/ SaveOpenFailed(c)
    \/ TxClear(c) \/ TxPut(c) \/ TxPutFails(c) \/ TxCommit(c) \/ TxAbort(c)
    \/ LoadOpened(c) \/ LoadOpenFailed(c) \/ TxGetAll(c) \/ TxGetAllFails(c)

InitStore ==
    /\ variant = Refined
    /\ now = 0
    /\ IdleSched
    /\ IdleDue
    /\ IdleRest
    /\ idb \in Stores
    /\ ls \in LegacySlots
    /\ calls = [c \in Calls |-> IdleCall]
    /\ txq = <<>>

\* any caller, calls overlapping freely
NextStore ==
    \E c \in Calls :
        \/ \E x \in Collections : StartSave(c, x)
        \/ StartLoad(c)
        \/ StoreStep(c)
        \/ Release(c)

SpecStore == InitStore /\ [][NextStore]_vars

----------------------------------------------------------------------------
(* Deck store, one caller: `await saveFlashcards(x)` in call 1 and, once it *)
(* has returned, `await loadFlashcards()` in call 2.                       *)

SeqSave ==
    /\ \A c \in Calls : calls[c].op = "idle"
    /\ \E x \in Collections : StartSave(1, x)

SeqLoad ==
    /\ calls[1].op = "save" /\ calls[1].pc = "resolved"
    /\ \A c \in Calls \ {1} : calls[c].op = "idle"
    /\ StartLoad(2)

SeqStep == \E c \in Calls : StoreStep(c)

\* the caller is done with both calls
SeqDone ==
    /\ calls[1].pc = "rejected" \/ Settled(2)
    /\ calls' = [c \in Calls |-> IdleCall]
    /\ UNCHANGED <<idb, ls, txq, nonStoreVars>>

NextSeq == SeqSave \/ SeqLoad \/ SeqStep \/ SeqDone

SpecSeq == InitStore /\ [][NextSeq]_vars

\* the event loop runs every callback that is ready
LiveSeq == SpecSeq /\ WF_vars(SeqStep)

----------------------------------------------------------------------------
(* Deck store properties *)

\* C8 - Round-trip persistence: once saveFlashcards(x) has returned, the
\* loadFlashcards() that follows returns exactly the cards of x, whatever the
\* object store and the legacy slot held before.
C8_RoundTrip ==
    (/\ calls[1].op = "save" /\ calls[1].pc = "resolved"
     /\ calls[2].op = "load" /\ calls[2].pc = "resolved")
        => (/\ calls[2].returns = "array"
            /\ AsSet(calls[2].result) = AsSet(calls[1].cards))

SaveReturns(c) ==
    /\ calls[c].op = "save"
    /\ calls[c].pc # "resolved"
    /\ calls'[c].op = "save"
    /\ calls'[c].pc = "resolved"

\* C9 - Replace-all save: when saveFlashcards(cards) returns normally, the
\* object store holds exactly the records of cards (none of the earlier
\* records that are not in cards; none at all for an empty cards).
C9_ReplaceAll ==
    [][\A c \in Calls : SaveReturns(c) => idb' = AsSet(calls[c].cards)]_vars

TxFails(c) ==
    /\ calls[c].tx = "active"
    /\ calls[c].error = "none"
    /\ calls'[c].error # "none"

TxCommits(c) ==
    /\ calls[c].tx = "active"
    /\ calls'[c].tx = "committed"

LoadReads(c) ==
    /\ calls[c].pc = "l_read"
    /\ calls'[c].pc = "resolved"

\* C10 - Save rollback: when a write of a save fails (or its transaction
\* aborts) the object store is back at the content it had when the
\* transaction started; a transaction that commits leaves exactly the cards
\* of its save; and a load reads the store only while no save transaction is
\* between its clear and its end, so it returns a complete record set.
C10_SaveRollback ==
    /\ [][\A c \in Calls : TxFails(c) => idb' = calls[c].pre]_vars
    /\ [][\A c \in Calls : TxCommits(c) => idb' = AsSet(calls[c].cards)]_vars
    /\ [][\A c \in Calls : LoadReads(c) =>
            /\ \A d \in Calls : calls[d].tx # "active"
            /\ AsSet(calls'[c].result) = idb]_vars

\* a save failed after its clear and one put, the store holds the earlier
\* records again, and a load is waiting behind the transaction
C10_Witness ==
    \E c, d \in Calls :
        /\ calls[c].op = "save"
        /\ calls[c].pc = "rejected"
        /\ calls[c].error = "request"
        /\ Len(calls[c].puts) = 1
        /\ Len(calls[c].cards) = 2
        /\ idb # {}
        /\ idb # AsSet(calls[c].cards)
        /\ calls[d].op = "load"
        /\ calls[d].pc = "l_read"

ActiveTx == { c \in Calls : calls[c].tx = "active" }

\* C11 - Concurrent saves do not interleave: at most one save transaction is
\* between its clear and its end; while it is, only its own requests change
\* the object store; and the store a committing save leaves is exactly its
\* own cards, so after two overlapping saves the store is the cards of the
\* one that committed last, never a mixture.
C11_NoInterleave ==
    /\ [](Cardinality(ActiveTx) <= 1)
    /\ [][\A c \in Calls : calls[c].tx = "active" =>
            (idb' = idb \/ \A d \in Calls \ {c} : calls'[d] = calls[d])]_vars
    /\ [][\A c, d \in Calls :
            (/\ c # d
             /\ calls[d].op = "save" /\ calls[d].tx = "committed"
             /\ calls[c].op = "save" /\ TxCommits(c))
                => idb' = AsSet(calls[c].cards)]_vars

\* two saves overlap: one has cleared the store and written one of its two
\* cards, the other waits with other cards for the same key
C11_Witness ==
    \E c, d \in Calls :
        /\ calls[c].op = "save" /\ calls[c].tx = "active"
        /\ Len(calls[c].cards) = 2 /\ Len(calls[c].puts) = 1
        /\ calls[d].op = "save" /\ calls[d].tx = "queued"
        /\ calls[d].cards # <<>>
        /\ calls[d].cards # calls[c].cards
        /\ \E j \in 1 .. Len(calls[d].cards) : calls[d].cards[j].id = calls[c].cards[1].id

\* C12 - Save fails open: a save that returned normally has committed its
\* transaction, and a save whose transaction failed is rejected.
C12_SaveFailsOpen ==
    \A c \in Calls :
        calls[c].op = "save" =>
            /\ calls[c].pc = "resolved" => calls[c].tx = "committed"
            /\ calls[c].error # "none" => calls[c].pc = "rejected"

LoadStarts(c) == calls[c].op = "idle" /\ calls'[c].op = "load"

\* a load that found a non-empty legacy list (kept in its cards)
Migrating(call) == call.op = "load" /\ call.cards # <<>>

Completes(c) == ~Settled(c) /\ calls'[c].pc \in {"resolved", "rejected"}

LegacyList == ls.kind = "array" /\ ls.cards # <<>>

\* C13 - One-way, one-time migration: a load that found the non-empty legacy
\* list L completes resolved with L, with the items of L in the object store
\* and the legacy key removed; the key is removed only when the store holds
\* L; and a load started with the key absent never changes the object store.
C13_Migration ==
    /\ [][\A c \in Calls : (Migrating(calls[c]) /\ Completes(c)) =>
            /\ calls'[c].pc = "resolved"
            /\ calls'[c].result = calls[c].cards
            /\ AsSet(calls[c].cards) \subseteq idb'
            /\ ls' = Absent]_vars
    /\ [][(LegacyList /\ ls' = Absent) => AsSet(ls.cards) \subseteq idb']_vars
    /\ [][\A c \in Calls : (LoadStarts(c) /\ ls = Absent) => ~Migrating(calls'[c])]_vars
    /\ [][\A c \in Calls : (calls[c].op = "load" /\ ~Migrating(calls[c])
                             /\ calls'[c] # calls[c]) => idb' = idb]_vars

\* C14 - Migration parse failure: a load that finds legacy text that is no
\* JSON, or JSON that is no list, leaves the legacy key and the object store
\* as they are and goes on to read the object store.
C14_ParseFailure ==
    [][\A c \in Calls : (LoadStarts(c) /\ ls.kind \in {"garbage", "object"}) =>
            /\ ls' = ls
            /\ idb' = idb
            /\ ~Migrating(calls'[c])
            /\ calls'[c].pc = "l_open"]_vars

\* C15 - Load without migration: a load that found no non-empty legacy list
\* and could open the database resolves with exactly the records of the
\* object store.
C15_LoadReturnsStore ==
    [][\A c \in Calls :
        (/\ calls'[c].op = "load" /\ ~Migrating(calls'[c])
         /\ Completes(c) /\ calls'[c].pc = "resolved"
         /\ calls[c].pc # "l_open")
            => /\ calls'[c].returns = "array"
               /\ calls'[c].result = getAll(idb)]_vars

----------------------------------------------------------------------------
(* Scheduler properties, continued *)

\* the step in which calculateReview returns
Returns == result' # NoCard /\ result' # result

\* C17 - Due date: the card a review returns at time now has
\* nextReview = now + (its new interval) * 86,400,000 ms.
C17_DueDate ==
    [][Returns => result'.nextReview = now + result'.interval * 86400000]_vars

\* the specification's first scenario, after the clock has moved: a new card
\* rated 4 is due one day after the review
C17_Witness ==
    /\ Reviewed
    /\ item.interval = 0 /\ item.repetition = 0 /\ item.ef = 250
    /\ quality = 4
    /\ now > 0
    /\ result.interval = 1 /\ result.repetition = 1
    /\ result.nextReview = now + 86400000

ScheduleFields == {"interval", "repetition", "ef", "nextReview"}

\* C18 - computeReview frame: the returned card has the fields of the card
\* reviewed and differs from it in interval, repetition, ef and nextReview
\* only; the card reviewed is not changed by the review.
C18_Frame ==
    /\ [](Reviewed =>
            /\ DOMAIN result = DOMAIN item
            /\ \A f \in DOMAIN item \ ScheduleFields : result[f] = item[f])
    /\ [][Returns => item' = item]_vars

\* a review that changed all four scheduling fields of a card
C18_Witness ==
    /\ Reviewed
    /\ result.interval # item.interval
    /\ result.repetition # item.repetition
    /\ result.ef # item.ef
    /\ result.nextReview # item.nextReview
    /\ result.id = item.id /\ result.kanji = item.kanji
\* C19 - Pass-streak growth: a rating of 4 or 5 given to a card that has
\* passed at least twice in a row, with interval >= 0 and ef >= 1.3, returns
\* an interval that is not below the card's interval; the returned card is
\* the card of the next review, so the intervals of a run of such ratings
\* never decrease from the third repetition on.
C19_StreakGrowth ==
    (/\ Reviewed
     /\ quality >= 4
     /\ item.repetition >= 2
     /\ item.interval >= 0
     /\ item.ef >= 130)
        => result.interval >= item.interval

\* the third pass in a row of a card created and rated 4 twice: 1, 6, 15 days
C19_Witness ==
    /\ Reviewed
    /\ quality = 4
    /\ item.repetition = 2 /\ item.interval = 6 /\ item.ef = 250
    /\ item.nextReview > 0
    /\ result.interval = 15
\* the number of passing ratings at the end of a run of ratings
RECURSIVE TrailingPasses(_)
TrailingPasses(rs) ==
    IF rs = <<>> THEN 0
    ELSE IF rs[Len(rs)] >= 3 THEN 1 + TrailingPasses(SubSeq(rs, 1, Len(rs) - 1))
    ELSE 0

\* C20 - Repetition count is the pass streak: the repetition count of a card
\* created in the session is the number of passing ratings (>= 3) it has had
\* since its last failing rating or since it was created, so it is never
\* negative; the same holds of the card a review returns, counting its rating.
C20_PassStreak ==
    /\ item.repetition = TrailingPasses(ratings)
    /\ item.repetition >= 0
    /\ Reviewed =>
        /\ result.repetition = TrailingPasses(Append(ratings, quality))
        /\ result.repetition >= 0

\* pass, pass, fail, pass: the streak is 1 again, and the next pass makes it 2
C20_Witness ==
    /\ Len(ratings) = 4
    /\ ratings[1] >= 3 /\ ratings[2] >= 3 /\ ratings[3] < 3 /\ ratings[4] = 3
    /\ item.repetition = 1
    /\ Reviewed /\ quality >= 3
    /\ result.repetition = 2
----------------------------------------------------------------------------
(* Bulk import: parseCSVImports over texts kept as sequences of characters. *)

Quote   == "\""
Newline == "\n"
kanjiWord == <<"k", "a", "n", "j", "i">>

\* String.prototype.toLowerCase ("K" is the upper-case letter of the model)
toLowerCase(s) == [j \in 1 .. Len(s) |-> IF s[j] = "K" THEN "k" ELSE s[j]]

\* String.prototype.includes
includes(s, sub) ==
    \E j \in 0 .. Len(s) - Len(sub) : SubSeq(s, j + 1, j + Len(sub)) = sub

RECURSIVE trimStart(_)
trimStart(s) == IF s # <<>> /\ Head(s) = " " THEN trimStart(Tail(s)) ELSE s

RECURSIVE trimEnd(_)
trimEnd(s) ==
    IF s # <<>> /\ s[Len(s)] = " " THEN trimEnd(SubSeq(s, 1, Len(s) - 1)) ELSE s

\* String.prototype.trim
trim(s) == trimEnd(trimStart(s))

\* String.prototype.split: the pieces of s between the separators at cuts
RECURSIVE splitAt(_, _)
splitAt(s, cuts) ==
    IF cuts = {} THEN <<s>>
    ELSE LET j == CHOOSE c \in cuts : \A d \in cuts : c <= d IN
         <<SubSeq(s, 1, j - 1)>>
            \o splitAt(SubSeq(s, j + 1, Len(s)), { c - j : c \in cuts \ {j} })

\* csvText.split(/\r?\n/)
splitLines(text) == splitAt(text, { j \in 1 .. Len(text) : text[j] = Newline })

quotesAfter(line, j) == Cardinality({ k \in j + 1 .. Len(line) : line[k] = Quote })

\* a split at every comma, quoted or not
splitFields_EveryComma(line) ==
    splitAt(line, { j \in 1 .. Len(line) : line[j] = "," })

\* line.split(/,(?=(?:(?:[^"]*"){2})*[^"]*$)/): at the commas that have an
\* even number of quotes behind them
splitFields(line) ==
    splitAt(line, { j \in 1 .. Len(line) :
                        line[j] = "," /\ quotesAfter(line, j) % 2 = 0 })

\* p.replace(/^"|"$/g, '')
stripQuotes(p) ==
    LET a == IF p # <<>> /\ Head(p) = Quote THEN Tail(p) ELSE p IN
    IF a # <<>> /\ a[Len(a)] = Quote THEN SubSeq(a, 1, Len(a) - 1) ELSE a

\* parts[k] || ''  (k counts from 1)
partOr(parts, k) == IF k <= Len(parts) THEN parts[k] ELSE <<>>

\* tagsString.split(/[;|\s]+/).filter(Boolean)
splitTags(tagsString) ==
    IF tagsString = <<>> THEN <<>>
    ELSE SelectSeq(splitAt(tagsString, { j \in 1 .. Len(tagsString) :
                                            tagsString[j] \in {";", "|", " "} }),
                   LAMBDA x : x # <<>>)

\* a header test that compares the line as it is written
isHeader_CaseSensitive(line, index) == index = 0 /\ includes(line, kanjiWord)

\* index === 0 && line.toLowerCase().includes('kanji')
isHeader(line, index) == index = 0 /\ includes(toLowerCase(line), kanjiWord)

\* createFlashcard(vocab, tags): the vocabulary fields, a new id, the
\* scheduling state of a new card, and the tags
createTaggedFlashcard(vocab, tags, i, t) ==
    createFlashcard(i, vocab.kanji, t)
        @@ [kana |-> vocab.kana, romaji |-> vocab.romaji,
            meanings |-> vocab.meanings, tags |-> tags]

\* the body of lines.forEach: the cards so far, with the card of this line
parseLine(line, index, t, newCards) ==
    IF trim(line) = <<>> THEN newCards
    ELSE IF isHeader(line, index) THEN newCards
    ELSE LET parts == [k \in 1 .. Len(splitFields(line)) |->
                          stripQuotes(trim(splitFields(line)[k]))]
             vocab == [kanji |-> partOr(parts, 1), kana |-> partOr(parts, 2),
                       romaji |-> partOr(parts, 3), meanings |-> partOr(parts, 4)]
             tags  == splitTags(partOr(parts, 5))
         IN IF Len(parts) >= 2 /\ vocab.kanji # <<>>
            THEN Append(newCards,
                        createTaggedFlashcard(vocab, tags, Len(newCards) + 1, t))
            ELSE newCards

RECURSIVE parseFrom(_, _, _, _)
parseFrom(lines, index, t, newCards) ==
    IF index >= Len(lines) THEN newCards
    ELSE parseFrom(lines, index + 1, t, parseLine(lines[index + 1], index, t, newCards))

parseCSVImports(text, t) == parseFrom(splitLines(text), 0, t, <<>>)

----------------------------------------------------------------------------
(* Bulk import specification: parseCSVImports over bounded texts. A text is *)
(* written from rows of fields; a field is the characters as written (raw), *)
(* the content they stand for (value) and, for a tags field, its tags.      *)

Field(raw, value, tags) == [raw |-> raw, value |-> value, tags |-> tags]

PrimaryFields ==
    { Field(<<>>, <<>>, <<>>),
      Field(<<" ">>, <<>>, <<>>),
      Field(<<"a">>, <<"a">>, <<>>),
      Field(<<" ", "a", " ">>, <<"a">>, <<>>),
      Field(<<Quote, "a", ",", "n", Quote>>, <<"a", ",", "n">>, <<>>),
      Field(<<Quote, Quote>>, <<>>, <<>>),
      Field(<<"K", "a", "n", "j", "i">>, <<"K", "a", "n", "j", "i">>, <<>>) }

KanaField    == Field(<<"n">>, <<"n">>, <<>>)
RomajiField  == Field(<<" ", "j">>, <<"j">>, <<>>)
MeaningField == Field(<<Quote, "i", ",", "i", Quote>>, <<"i", ",", "i">>, <<>>)

TagsFields ==
    { Field(<<>>, <<>>, <<>>),
      Field(<<"a">>, <<"a">>, << <<"a">> >>),
      Field(<<"a", ";", "n">>, <<"a", ";", "n">>, << <<"a">>, <<"n">> >>),
      Field(<<" ", "a", " ", "|", " ", "n", ";">>, <<"a", " ", "|", " ", "n", ";">>,
            << <<"a">>, <<"n">> >>) }

Rows ==
    { <<p>> \o SubSeq(<<KanaField, RomajiField, MeaningField>>, 1, n) :
        p \in PrimaryFields, n \in 0 .. 3 }
    \cup { <<p, KanaField, RomajiField, MeaningField, g>> :
            p \in PrimaryFields, g \in TagsFields }

Texts == UNION { [1 .. n -> Rows] : n \in 0 .. MaxRows }

\* the characters of a row: its fields as written, with commas between them
RECURSIVE LineOf(_)
LineOf(row) ==
    IF Len(row) = 1 THEN row[1].raw
    ELSE LineOf(SubSeq(row, 1, Len(row) - 1)) \o <<",">> \o row[Len(row)].raw

\* the characters of a text: its rows, with newlines between them
RECURSIVE TextOf(_)
TextOf(rows) ==
    IF rows = <<>> THEN <<>>
    ELSE IF Len(rows) = 1 THEN LineOf(rows[1])
    ELSE TextOf(SubSeq(rows, 1, Len(rows) - 1)) \o <<Newline>> \o LineOf(rows[Len(rows)])

InitImport ==
    /\ variant = Refined
    /\ now \in Times
    /\ csvRows \in Texts
    /\ csvText = TextOf(csvRows)
    /\ imports = NotParsed
    /\ IdleSched
    /\ IdleDue
    /\ IdleStore
    /\ IdleSess
    /\ IdleApp

\* one more row is typed into the import dialog
TypeRow ==
    /\ Len(csvRows) < MaxRows
    /\ \E row \in Rows :
          /\ csvRows' = Append(csvRows, row)
          /\ csvText' = TextOf(csvRows')
    /\ imports' = NotParsed
    /\ UNCHANGED <<variant, now, schedVars, dueVars, storeVars, sessVars, appVars>>

\* the import dialog is emptied
ClearText ==
    /\ csvRows' = <<>>
    /\ csvText' = <<>>
    /\ imports' = NotParsed
    /\ UNCHANGED <<variant, now, schedVars, dueVars, storeVars, sessVars, appVars>>

\* handleBulkImport: const newCards = parseCSVImports(csvText)
ParseImport ==
    /\ imports' = [parsed |-> TRUE, newCards |-> parseCSVImports(csvText, now)]
    /\ UNCHANGED <<variant, now, csvRows, csvText, schedVars, dueVars, storeVars, sessVars, appVars>>

NextImport == TypeRow \/ ClearText \/ ParseImport

SpecImport == InitImport /\ [][NextImport]_vars

----------------------------------------------------------------------------
(* Bulk import properties *)

Blank(row) == \A j \in 1 .. Len(LineOf(row)) : LineOf(row)[j] = " "

Header(row) ==
    \E k \in 1 .. Len(row) :
        row[k].value \in { kanjiWord, <<"K", "a", "n", "j", "i">> }

\* a row the import may take a card from
Candidate(i) ==
    /\ ~Blank(csvRows[i])
    /\ ~(i = 1 /\ Header(csvRows[i]))
    /\ csvRows[i][1].value # <<>>

\* the ways of finding the returned cards among the rows, in row order
RowsOfCards ==
    { f \in [1 .. Len(imports.newCards) -> 1 .. Len(csvRows)] :
        \A j, k \in 1 .. Len(imports.newCards) : j < k => f[j] < f[k] }

\* C23 - Bulk import filtering: every card parseCSVImports returns has a
\* non-empty kanji and the scheduling state of a new card; the cards come, in
\* row order, from rows that are not blank, not a header in the first line,
\* and whose first field is not empty; a header followed by one data row
\* gives exactly one card.
C23_ImportFilter ==
    imports.parsed =>
        /\ \A k \in 1 .. Len(imports.newCards) :
              LET c == imports.newCards[k] IN
                  /\ c.kanji # <<>>
                  /\ c.interval = 0 /\ c.repetition = 0 /\ c.ef = 250
        /\ \E f \in RowsOfCards :
              \A k \in 1 .. Len(imports.newCards) :
                  /\ Candidate(f[k])
                  /\ imports.newCards[k].kanji = csvRows[f[k]][1].value
        /\ (/\ Len(csvRows) = 2
            /\ Header(csvRows[1]) /\ Len(csvRows[1]) >= 4
            /\ Candidate(2) /\ Len(csvRows[2]) >= 4)
                => Len(imports.newCards) = 1

\* the specification's fifth scenario: the header Kanji,Kana,Romaji,Meaning
\* and one data row have been parsed into one card
C23_Witness ==
    /\ imports.parsed
    /\ Len(csvRows) = 2
    /\ Len(csvRows[1]) = 4 /\ csvRows[1][1].raw = <<"K", "a", "n", "j", "i">>
    /\ Len(csvRows[2]) = 4 /\ csvRows[2][1].raw = <<"a">>
    /\ Len(imports.newCards) = 1
    /\ imports.newCards[1].kanji = <<"a">>

FieldValue(row, k) == IF k <= Len(row) THEN row[k].value ELSE <<>>
RowTags(row) == IF Len(row) >= 5 THEN row[5].tags ELSE <<>>

\* C24 - Bulk import columns: the card of an accepted row has the row's
\* first four fields as kanji, kana, romaji and meanings, and as tags the
\* non-empty pieces of the fifth field between ';', '|' and spaces (no tags
\* when there is no fifth field).
C24_ImportColumns ==
    imports.parsed =>
        \E f \in RowsOfCards :
            \A k \in 1 .. Len(imports.newCards) :
                LET c == imports.newCards[k]
                    row == csvRows[f[k]]
                IN /\ c.kanji = FieldValue(row, 1)
                   /\ c.kana = FieldValue(row, 2)
                   /\ c.romaji = FieldValue(row, 3)
                   /\ c.meanings = FieldValue(row, 4)
                   /\ c.tags = RowTags(row)

\* the specification's fourth scenario, in the characters of the model: one
\* row of five fields whose tags field is a;n gives one card with tags a, n
C24_Witness ==
    /\ imports.parsed
    /\ Len(csvRows) = 1
    /\ Len(csvRows[1]) = 5
    /\ csvRows[1][1].raw = <<"a">>
    /\ csvRows[1][5].raw = <<"a", ";", "n">>
    /\ Len(imports.newCards) = 1
    /\ imports.newCards[1].kanji = <<"a">>
    /\ imports.newCards[1].meanings = <<"i", ",", "i">>
    /\ imports.newCards[1].tags = << <<"a">>, <<"n">> >>

----------------------------------------------------------------------------
(* Deck properties *)

\* the step in which a card is created and appended to the collection
Creates == Len(cards') = Len(cards) + 1

\* C21 - A new card is due: the card createFlashcard returns has interval 0,
\* repetition 0, ef 2.5 and nextReview = now; it is in the due list computed
\* when it is added, and in getDueCards of its collection at every later time.
C21_NewCardDue ==
    [][Creates =>
        LET c == cards'[Len(cards')] IN
            /\ c.interval = 0 /\ c.repetition = 0 /\ c.ef = 250
            /\ c.nextReview = now
            /\ InSeq(c, due'.list)
            /\ \A t \in Times : t >= now => InSeq(c, getDueCards(variant, cards', t))]_vars

\* a card created after the clock had started (it took the id of a deleted
\* card) is still unreviewed and still in the due list computed at a later time
C21_Witness ==
    /\ cards # <<>>
    /\ LET c == cards[Len(cards)] IN
          /\ c.id < Len(cards)
          /\ c.nextReview > 0 /\ c.nextReview < now
          /\ c = createFlashcard(c.id, "k", c.nextReview)
          /\ due.now = now
          /\ InSeq(c, due.list)
Positions(P(_)) == { i \in 1 .. Len(cards) : P(cards[i]) }

IsNew(c)      == c.repetition = 0
IsReview(c)   == c.repetition > 0 /\ c.nextReview <= stats.now
IsWaiting(c)  == c.repetition > 0 /\ c.nextReview > stats.now

\* C22 - Deck statistics: getDeckStats returns new = the number of cards
\* with repetition 0, review = the number of cards with repetition > 0 and
\* nextReview <= now, learning = 0 and total = the number of cards, so
\* new + review + (cards with repetition > 0 that are not due) = total.
C22_DeckStats ==
    /\ stats.counts.new = Cardinality(Positions(IsNew))
    /\ stats.counts.review = Cardinality(Positions(IsReview))
    /\ stats.counts.learning = 0
    /\ stats.counts.total = Len(cards)
    /\ stats.counts.new + stats.counts.review + Cardinality(Positions(IsWaiting))
            = stats.counts.total

\* the counts computed when a card was added to a studied card that is due
\* and a studied card that is not
C22_Witness ==
    /\ Len(cards) = 3
    /\ cards[3].id < 3
    /\ IsNew(cards[3]) /\ cards[3].nextReview = stats.now
    /\ stats.counts.new = 1 /\ stats.counts.review = 1
    /\ Cardinality(Positions(IsWaiting)) = 1
----------------------------------------------------------------------------
(* Review session specification: the review state of FlashcardReview over   *)
(* a bounded deck. review.started is the due list the session was started   *)
(* with; saved is the argument of the last saveFlashcards call, whose        *)
(* transaction is the subject of the deck store specification.              *)

\* the rating buttons of the review view: handleRating(1), (3), (4), (5)
RatingButtons == {1, 3, 4, 5}

\* allCards.map(c => c.id === card.id ? card : c)
replaceCard(cs, card) ==
    [j \in 1 .. Len(cs) |-> IF cs[j].id = card.id THEN card ELSE cs[j]]

InitSession ==
    /\ variant \in Variants
    /\ now \in Times
    /\ cards \in Decks
    /\ due = DueAt(variant, cards, now)
    /\ stats = StatsAt(cards, now)
    /\ review = NoSession
    /\ saved = <<>>
    /\ IdleSched
    /\ IdleStore
    /\ IdleImport
    /\ IdleApp

TickSession ==
    /\ \E t \in Times : t > now /\ now' = t
    /\ UNCHANGED <<variant, schedVars, dueVars, storeVars, importVars, sessVars, appVars>>

handleStartSession ==
    /\ review.viewMode = "dashboard"
    /\ Len(due.list) > 0
    /\ review' = [viewMode |-> "review", currentCardIndex |-> 0,
                  sessionComplete |-> FALSE, history |-> <<>>,
                  started |-> due.list]
    /\ UNCHANGED <<variant, now, schedVars, dueVars, storeVars, importVars, saved, appVars>>

\* a rating button is pressed; the effect on [allCards, activeTag] then
\* computes the due list and the counts again
handleRating ==
    /\ review.viewMode = "review" /\ ~review.sessionComplete
    /\ review.currentCardIndex < Len(due.list)
    /\ \E rating \in RatingButtons :
          LET currentCard == due.list[review.currentCardIndex + 1]
              updatedCard == calculateReview(variant, currentCard, rating, now)
              updatedAllCards == replaceCard(cards, updatedCard)
          IN /\ cards' = updatedAllCards
             /\ saved' = updatedAllCards
             /\ review' =
                  [review EXCEPT
                     !.history = Append(@, [index |-> review.currentCardIndex,
                                            card |-> currentCard]),
                     !.currentCardIndex =
                        IF review.currentCardIndex < Len(due.list) - 1 THEN @ + 1 ELSE @,
                     !.sessionComplete = ~(review.currentCardIndex < Len(due.list) - 1)]
    /\ due' = DueAt(variant, cards', now)
    /\ stats' = StatsAt(cards', now)
    /\ UNCHANGED <<variant, now, schedVars, storeVars, importVars, appVars>>

\* "Return to Deck" in the Session Finished view
returnToDeck ==
    /\ review.viewMode = "review" /\ review.sessionComplete
    /\ review' = [review EXCEPT !.viewMode = "dashboard"]
    /\ UNCHANGED <<variant, now, schedVars, dueVars, storeVars, importVars, saved, appVars>>

NextSession == TickSession \/ handleStartSession \/ handleRating \/ returnToDeck

SpecSession == InitSession /\ [][NextSession]_vars

\* handleBack on the deck cs and the review state rv: the deck and review
\* state it sets, and whether it calls saveFlashcards with that deck
afterBack(cs, rv) ==
    IF rv.history = <<>> THEN [cards |-> cs, review |-> rv, saves |-> FALSE]
    ELSE LET lastAction == rv.history[Len(rv.history)] IN
         [cards  |-> replaceCard(cs, lastAction.card),
          review |-> [rv EXCEPT !.currentCardIndex = lastAction.index,
                                !.sessionComplete = FALSE,
                                !.history = SubSeq(@, 1, Len(@) - 1)],
          saves  |-> TRUE]

\* the Undo button of the review view (shown while the history is not empty)
handleBack ==
    /\ review.viewMode = "review" /\ ~review.sessionComplete
    /\ review.history # <<>>
    /\ cards' = afterBack(cards, review).cards
    /\ saved' = afterBack(cards, review).cards
    /\ review' = afterBack(cards, review).review
    /\ due' = DueAt(variant, cards', now)
    /\ stats' = StatsAt(cards', now)
    /\ UNCHANGED <<variant, now, schedVars, storeVars, importVars, appVars>>

NextUndo == NextSession \/ handleBack

SpecUndo == InitSession /\ [][NextUndo]_vars

----------------------------------------------------------------------------
(* Review session properties *)

RatedIds == { review.history[k].card.id : k \in 1 .. Len(review.history) }

\* C25 - Review session covers every due card: when a session without undo
\* shows "Session Finished", every card of the due list it was started with
\* has been rated, after exactly as many ratings as that list has cards.
C25_SessionCoversDue ==
    (review.viewMode = "review" /\ review.sessionComplete) =>
        /\ Len(review.history) = Len(review.started)
        /\ \A j \in 1 .. Len(review.started) : review.started[j].id \in RatedIds
\* the step of handleRating, and of handleBack
Rates == Len(review'.history) = Len(review.history) + 1
Backs == Len(review'.history) = Len(review.history) - 1

\* the card the review view shows for deck cs and review state rv at time t
currentCardOf(cs, rv, t) ==
    LET d == getDueCards(variant, cs, t) IN
    IF rv.currentCardIndex < Len(d) THEN d[rv.currentCardIndex + 1] ELSE NoCard

\* C30 - Undo round-trip: handleBack applied to the state handleRating
\* leaves gives back the deck of before the rating (so the rated card has its
\* interval, repetition, ef and nextReview again) and passes it to save, gives
\* back the history of before, clears sessionComplete and has the rated card
\* as the current card; handleBack with an empty history changes nothing.
C30_UndoRoundTrip ==
    /\ [][Rates =>
            LET r == afterBack(cards', review') IN
                /\ r.cards = cards
                /\ r.saves
                /\ r.review.history = review.history
                /\ ~r.review.sessionComplete
                /\ r.review.currentCardIndex = review.currentCardIndex
                /\ currentCardOf(r.cards, r.review, now')
                      = due.list[review.currentCardIndex + 1]]_vars
    /\ [][Backs => saved' = cards']_vars
    /\ [](review.history = <<>> =>
            /\ afterBack(cards, review).cards = cards
            /\ afterBack(cards, review).review = review
            /\ ~afterBack(cards, review).saves)
----------------------------------------------------------------------------
(* Deck store properties, continued *)

\* the migration save of load c ends in this step without a commit
MigrationFails(c) ==
    /\ Migrating(calls[c])
    /\ calls[c].pc \in {"s_open", "s_tx"}
    /\ calls'[c].pc \notin {"s_open", "s_tx"}
    /\ calls'[c].tx # "committed"

\* C26 - No legacy data loss: the legacy key is removed only in a step that
\* leaves the cards it held in the object store (or when it held no cards);
\* when the migration save of a load ends without a commit (the database
\* could not be opened, a put failed, the transaction aborted) the legacy
\* slot stays as it is.
C26_NoLegacyLoss ==
    /\ [][(LegacyList /\ ls' = Absent) => AsSet(ls.cards) \subseteq idb']_vars
    /\ [][\A c \in Calls : MigrationFails(c) => ls' = ls]_vars
\* C27 - Interval of reachable cards: a card created in the session has
\* interval 0 exactly while it has had no rating and an interval of at least
\* 1 after every rating; the card a review returns at time now has
\* nextReview after now and is not in getDueCards at now.
C27_IntervalReachable ==
    /\ [](ratings = <<>> <=> item.interval = 0)
    /\ [](ratings # <<>> => item.interval >= 1)
    /\ [](Reviewed => result.interval >= 1)
    /\ [][Returns =>
            /\ result'.nextReview > now
            /\ getDueCards(variant, <<result'>>, now) = <<>>]_vars

\* a card that has been rated before fails a review after the clock has
\* moved: its interval goes from 6 days to 1
C27_Witness ==
    /\ ratings # <<>>
    /\ item.interval = 6
    /\ Reviewed /\ quality < 3
    /\ result.interval = 1
    /\ now > 0
    /\ result.nextReview > now
\* C29 - Save always settles: every saveFlashcards call is in the end
\* resolved or rejected, whatever becomes of its transaction.
C29_SaveSettles ==
    \A c \in Calls :
        (calls[c].op = "save") ~> (calls[c].op = "save" => Settled(c))
----------------------------------------------------------------------------
(* App specification: AppContent from its mount on. Call 1 is the           *)
(* loadFlashcards() of the initCards effect, started at the mount; the      *)
(* other calls are the saveFlashcards of handleAddFlashcard.                *)
(* app.persisted is the object store at the mount, app.added the cards      *)
(* added since, app.raced whether one was added before the load delivered.  *)

InitApp ==
    /\ variant \in Variants
    /\ now = 0
    /\ idb \in Stores
    /\ ls = Absent
    /\ calls = [c \in Calls |->
                  IF c = 1 THEN [IdleCall EXCEPT !.op = "load", !.pc = "l_open"]
                  ELSE IdleCall]
    /\ txq = <<>>
    /\ flashcards = <<>>
    /\ app = [NoApp EXCEPT !.mounted = TRUE, !.persisted = idb]
    /\ IdleSched
    /\ IdleDue
    /\ IdleImport
    /\ IdleSess

\* initCards: `const cards = await loadFlashcards(); setFlashcards(cards)`,
\* or the catch that logs "Failed to load flashcards"
deliverLoad ==
    /\ ~app.loaded
    /\ calls[1].op = "load" /\ Settled(1)
    /\ flashcards' = IF calls[1].pc = "resolved" THEN calls[1].result ELSE flashcards
    /\ app' = [app EXCEPT !.loaded = TRUE]
    /\ calls' = [calls EXCEPT ![1] = IdleCall]
    /\ UNCHANGED <<variant, now, idb, ls, txq, schedVars, dueVars, importVars, sessVars>>

\* handleAddFlashcard up to its await
handleAddFlashcard ==
    /\ Cardinality(app.added) < MaxAdds
    /\ \E c \in Calls \ {1} :
          /\ calls[c].op = "idle"
          /\ LET newCard == createFlashcard(MaxId + 1 + Cardinality(app.added), "k", now)
                 updatedCards == Append(flashcards, newCard)
             IN /\ flashcards' = updatedCards
                /\ calls' = [calls EXCEPT ![c] = [IdleCall EXCEPT !.op = "save",
                                                  !.pc = "s_open", !.cards = updatedCards]]
                /\ app' = [app EXCEPT !.added = @ \cup {newCard},
                                      !.raced = @ \/ ~app.loaded]
    /\ UNCHANGED <<variant, now, idb, ls, txq, schedVars, dueVars, importVars, sessVars>>

\* handleAddFlashcard after `await saveFlashcards(updatedCards)`
addReturns == \E c \in Calls \ {1} : Release(c)

appStep == \E c \in Calls : StoreStep(c)

NextApp == deliverLoad \/ handleAddFlashcard \/ addReturns \/ appStep

SpecApp == InitApp /\ [][NextApp]_vars

----------------------------------------------------------------------------
(* App properties *)

\* C28 - Initial load versus add race: when a card was added before the
\* initial load delivered, then once the load has delivered and every save
\* has returned, the object store and the deck in memory both hold every
\* card the store held at the mount and the added card.
C28_LoadAddRace ==
    (/\ app.raced
     /\ app.loaded
     /\ \A c \in Calls : calls[c].op = "idle")
        => /\ (app.persisted \cup app.added) \subseteq idb
           /\ (app.persisted \cup app.added) \subseteq AsSet(flashcards)

====
